---------------------------- MODULE Spec2Model ----------------------------
(***************************************************************************)
(* A model of seller.py (Ozon) and market.py (Yandex Market): the offer    *)
(* directory fetcher (get_offer_ids), the reconciler (create_stocks,       *)
(* create_prices, price_conversion), the batch uploader (divide and the    *)
(* upload loops) and the two entry points (main).                          *)
(*                                                                         *)
(* A Python str is a sequence of one-character strings; characters outside *)
(* ASCII are written as tokens ("CYR_R" for the Cyrillic letter er).  A    *)
(* spreadsheet cell is [t, s, n]: t = "str" with text s, or t = "int" with *)
(* value n (pandas yields int for whole-number cells).  The feed columns   *)
(* are written Kod, Kolichestvo and Cena for the Cyrillic column names.    *)
(***************************************************************************)
EXTENDS Integers, Sequences, FiniteSets, TLC

VARIABLES
    mode,            \* which function or entry point this behaviour runs
    pc,              \* where the run is: "call", "return", or a place in main
    watch_remnants,  \* the feed: a sequence of rows
    offer_ids,       \* the caller's offer-id list object (mutated in place)
    snapshot,        \* ghost: offer_ids as it was when the caller obtained it
    stocks,          \* the value create_stocks returned last
    runs,            \* ghost: what each create_stocks call returned, in order
    price,           \* price_conversion's argument
    converted,       \* price_conversion's result once it returned
    lst, n,          \* divide's arguments
    chunks,          \* list(divide(...)): of divide's call, or of main's loop
    platform,        \* the marketplace: campaign -> the offer ids it lists
    page_size,       \* the most items the marketplace puts in one page
    feed_file,       \* the rows of the spreadsheet behind the feed URL
    campaign,        \* the store or campaign main is working on
    product_list,    \* get_offer_ids: the items accumulated
    last_id,         \* seller.get_offer_ids: the cursor of the next call
    total,           \* seller.get_offer_ids: the total last reported
    page,            \* market.get_offer_ids: the page token of the next call
    prices,          \* the value create_prices returned
    idx,             \* the place of the upload loop in chunks
    calls,           \* ghost: the marketplace HTTP calls made, in order
    printed,         \* what main printed
    coroutines       \* coroutine objects created by calling an async function

stockVars == <<watch_remnants, offer_ids, snapshot, stocks, runs>>
priceVars == <<price, converted>>
divideVars == <<lst, n, chunks>>
worldVars == <<platform, page_size, feed_file>>
fetchVars == <<product_list, last_id, total, page>>
mainVars == <<worldVars, campaign, fetchVars, prices, idx, calls, printed, coroutines>>
vars == <<mode, pc, stockVars, priceVars, divideVars, mainVars>>

(***************************************************************************)
(* Python values                                                           *)
(***************************************************************************)
Digits == <<"0", "1", "2", "3", "4", "5", "6", "7", "8", "9">>

IsDigit(c) == \E d \in 1..10 : Digits[d] = c

DigitValue(c) == (CHOOSE d \in 1..10 : Digits[d] = c) - 1

Whitespace == {" "}

StrCell(s) == [t |-> "str", s |-> s, n |-> 0]

IntCell(v) == [t |-> "int", s |-> <<>>, n |-> v]

\* str(int): the decimal digits, with a leading "-" below zero.
RECURSIVE NatToStr(_)
NatToStr(v) ==
    IF v < 10 THEN <<Digits[v + 1]>>
    ELSE Append(NatToStr(v \div 10), Digits[(v % 10) + 1])

IntToStr(v) == IF v < 0 THEN <<"-">> \o NatToStr(0 - v) ELSE NatToStr(v)

\* str(cell): a str cell is its own text, an int cell its decimal text.
PyStr(cell) == IF cell.t = "str" THEN cell.s ELSE IntToStr(cell.n)

\* s.strip() for the whitespace of the alphabet.
RECURSIVE LStrip(_)
LStrip(s) ==
    IF s # <<>> /\ Head(s) \in Whitespace THEN LStrip(Tail(s)) ELSE s

RECURSIVE RStrip(_)
RStrip(s) ==
    IF s # <<>> /\ s[Len(s)] \in Whitespace
    THEN RStrip(SubSeq(s, 1, Len(s) - 1)) ELSE s

\* The digits-and-underscores body int() accepts: it starts and ends with a
\* digit and holds no two underscores in a row.
IntBodyOk(b) ==
    /\ b # <<>>
    /\ IsDigit(b[1]) /\ IsDigit(b[Len(b)])
    /\ \A k \in 1..Len(b) : IsDigit(b[k]) \/ b[k] = "_"
    /\ \A k \in 1..(Len(b) - 1) : ~(b[k] = "_" /\ b[k + 1] = "_")

RECURSIVE IntBodyValue(_, _)
IntBodyValue(b, acc) ==
    IF b = <<>> THEN acc
    ELSE IF Head(b) = "_" THEN IntBodyValue(Tail(b), acc)
    ELSE IntBodyValue(Tail(b), 10 * acc + DigitValue(Head(b)))

\* int(str): [ok, val]; ok = FALSE is ValueError.
PyIntOfStr(s) ==
    LET t == RStrip(LStrip(s))
        signed == t # <<>> /\ Head(t) \in {"+", "-"}
        b == IF signed THEN Tail(t) ELSE t
    IN  IF ~IntBodyOk(b) THEN [ok |-> FALSE, val |-> 0]
        ELSE [ok |-> TRUE,
              val |-> IF signed /\ Head(t) = "-"
                      THEN 0 - IntBodyValue(b, 0) ELSE IntBodyValue(b, 0)]

\* int(cell): an int cell is its value, a str cell is parsed.
PyInt(cell) ==
    IF cell.t = "int" THEN [ok |-> TRUE, val |-> cell.n] ELSE PyIntOfStr(cell.s)

\* x in list
In(x, list) == \E k \in 1..Len(list) : list[k] = x

\* list.remove(x): the list without the first occurrence of x.
Remove(list, x) ==
    LET k == CHOOSE j \in 1..Len(list) :
                 list[j] = x /\ \A h \in 1..(j - 1) : list[h] # x
    IN  SubSeq(list, 1, k - 1) \o SubSeq(list, k + 1, Len(list))


(***************************************************************************)
(* The reconciler: create_stocks                                           *)
(***************************************************************************)
GT10 == <<">", "1", "0">>

\* The quantity rule without its "1" case.
seller_stock_without_one(watch) ==
    LET count == PyStr(watch.Kolichestvo)
    IN  IF count = GT10 THEN [ok |-> TRUE, val |-> 100]
        ELSE PyInt(watch.Kolichestvo)

\* seller.py, create_stocks: the count of a matched row; ok = FALSE is the
\* ValueError int() raises.
seller_stock(watch) ==
    LET count == PyStr(watch.Kolichestvo)
    IN  IF count = GT10 THEN [ok |-> TRUE, val |-> 100]
        ELSE IF count = <<"1">> THEN [ok |-> TRUE, val |-> 0]
        ELSE PyInt(watch.Kolichestvo)

\* A first loop that forgets to remove the matched id.
seller_remove_forgotten(ids, code) == ids

\* seller.py, create_stocks: the matched id leaves the caller's list.
seller_remove(ids, code) == Remove(ids, code)

\* seller.py, create_stocks: the first loop, from row k on.  It works on the
\* caller's list itself; a raise leaves the removals made so far in place.
RECURSIVE seller_match_loop(_, _, _, _)
seller_match_loop(rows, k, acc, ids) ==
    IF k > Len(rows) THEN [raised |-> FALSE, stocks |-> acc, offer_ids |-> ids]
    ELSE LET watch == rows[k]
             code == PyStr(watch.Kod)
         IN  IF In(code, ids)
             THEN LET stock == seller_stock(watch)
                  IN  IF ~stock.ok
                      THEN [raised |-> TRUE, stocks |-> acc, offer_ids |-> ids]
                      ELSE seller_match_loop(
                               rows, k + 1,
                               Append(acc, [offer_id |-> code, stock |-> stock.val]),
                               seller_remove(ids, code))
             ELSE seller_match_loop(rows, k + 1, acc, ids)

\* A second loop that puts the zero records in front.
seller_defaults_in_front(acc, ids) ==
    [k \in 1..Len(ids) |-> [offer_id |-> ids[k], stock |-> 0]] \o acc

\* seller.py, create_stocks: the second loop, a zero for every id still listed.
seller_defaults(acc, ids) ==
    acc \o [k \in 1..Len(ids) |-> [offer_id |-> ids[k], stock |-> 0]]

\* seller.create_stocks(watch_remnants, offer_ids): what it returns (ret), whether
\* it raised, and the caller's list as the call leaves it.
seller_create_stocks(rows, ids) ==
    LET r == seller_match_loop(rows, 1, <<>>, ids)
    IN  [raised |-> r.raised,
         ret |-> IF r.raised THEN <<>> ELSE seller_defaults(r.stocks, r.offer_ids),
         offer_ids |-> r.offer_ids]

\* market.py, create_stocks: the count of a matched row.
market_stock(watch) ==
    LET count == PyStr(watch.Kolichestvo)
    IN  IF count = GT10 THEN [ok |-> TRUE, val |-> 100]
        ELSE IF count = <<"1">> THEN [ok |-> TRUE, val |-> 0]
        ELSE PyInt(watch.Kolichestvo)

\* market.py, create_stocks: one stock record.
market_record(sku, warehouse_id, count, date) ==
    [sku |-> sku, warehouseId |-> warehouse_id,
     items |-> <<[count |-> count, type |-> "FIT", updatedAt |-> date]>>]

\* market.py, create_stocks: the matched id leaves the caller's list.
market_remove(ids, code) == Remove(ids, code)

\* market.py, create_stocks: the first loop, from row k on.
RECURSIVE market_match_loop(_, _, _, _, _, _)
market_match_loop(rows, k, acc, ids, warehouse_id, date) ==
    IF k > Len(rows) THEN [raised |-> FALSE, stocks |-> acc, offer_ids |-> ids]
    ELSE LET watch == rows[k]
             code == PyStr(watch.Kod)
         IN  IF In(code, ids)
             THEN LET stock == market_stock(watch)
                  IN  IF ~stock.ok
                      THEN [raised |-> TRUE, stocks |-> acc, offer_ids |-> ids]
                      ELSE market_match_loop(
                               rows, k + 1,
                               Append(acc, market_record(code, warehouse_id,
                                                         stock.val, date)),
                               market_remove(ids, code), warehouse_id, date)
             ELSE market_match_loop(rows, k + 1, acc, ids, warehouse_id, date)

\* market.py, create_stocks: the second loop.
market_defaults(acc, ids, warehouse_id, date) ==
    acc \o [k \in 1..Len(ids) |-> market_record(ids[k], warehouse_id, 0, date)]

\* market.create_stocks(watch_remnants, offer_ids, warehouse_id), run at time date.
market_create_stocks(rows, ids, warehouse_id, date) ==
    LET r == market_match_loop(rows, 1, <<>>, ids, warehouse_id, date)
    IN  [raised |-> r.raised,
         ret |-> IF r.raised THEN <<>>
                 ELSE market_defaults(r.stocks, r.offer_ids, warehouse_id, date),
         offer_ids |-> r.offer_ids]


(***************************************************************************)
(* The reconciler: price_conversion and create_prices                      *)
(***************************************************************************)
\* str.split(sep) for a one-character sep: the pieces between the separators.
RECURSIVE Split(_, _, _)
Split(s, sep, piece) ==
    IF s = <<>> THEN <<piece>>
    ELSE IF Head(s) = sep THEN <<piece>> \o Split(Tail(s), sep, <<>>)
    ELSE Split(Tail(s), sep, Append(piece, Head(s)))

\* re.sub("[^0-9]", "", s): every character outside 0-9 is replaced by "".
RECURSIVE ReSubNonDigit(_)
ReSubNonDigit(s) ==
    IF s = <<>> THEN <<>>
    ELSE IF IsDigit(Head(s)) THEN <<Head(s)>> \o ReSubNonDigit(Tail(s))
    ELSE ReSubNonDigit(Tail(s))

\* A conversion that keeps the digits after the first "." too.
price_conversion_without_split(p) == ReSubNonDigit(p)

\* seller.price_conversion(price), price a str.
price_conversion(p) == ReSubNonDigit(Split(p, ".", <<>>)[1])

\* seller.py, create_prices: one price record.
seller_price_record(code, value) ==
    [auto_action_enabled |-> "UNKNOWN", currency_code |-> "RUB",
     offer_id |-> code, old_price |-> "0", price |-> value]

\* seller.create_prices(watch_remnants, offer_ids); a price cell that is no str
\* has no split (AttributeError).
RECURSIVE seller_create_prices_loop(_, _, _, _)
seller_create_prices_loop(rows, k, acc, ids) ==
    IF k > Len(rows) THEN [raised |-> FALSE, ret |-> acc]
    ELSE LET watch == rows[k]
             code == PyStr(watch.Kod)
         IN  IF In(code, ids)
             THEN IF watch.Cena.t # "str" THEN [raised |-> TRUE, ret |-> <<>>]
                  ELSE seller_create_prices_loop(
                           rows, k + 1,
                           Append(acc, seller_price_record(
                                           code, price_conversion(watch.Cena.s))),
                           ids)
             ELSE seller_create_prices_loop(rows, k + 1, acc, ids)

\* A create_prices that takes a code once, as create_stocks does: it works on
\* the first row of each code only.
seller_create_prices_first_rows(rows, ids) ==
    LET first(j) == \A h \in 1..(j - 1) : PyStr(rows[h].Kod) # PyStr(rows[j].Kod)
        kept == SelectSeq([j \in 1..Len(rows) |-> j], first)
    IN  seller_create_prices_loop([i \in 1..Len(kept) |-> rows[kept[i]]],
                                  1, <<>>, ids)

seller_create_prices(rows, ids) == seller_create_prices_loop(rows, 1, <<>>, ids)

\* market.py, create_prices: one price record.
market_price_record(code, value) ==
    [id |-> code, price |-> [value |-> value, currencyId |-> "RUR"]]

\* market.create_prices(watch_remnants, offer_ids): the value is
\* int(price_conversion(...)), which raises on a price without digits.
RECURSIVE market_create_prices_loop(_, _, _, _)
market_create_prices_loop(rows, k, acc, ids) ==
    IF k > Len(rows) THEN [raised |-> FALSE, ret |-> acc]
    ELSE LET watch == rows[k]
             code == PyStr(watch.Kod)
         IN  IF In(code, ids)
             THEN IF watch.Cena.t # "str" THEN [raised |-> TRUE, ret |-> <<>>]
                  ELSE LET value == PyIntOfStr(price_conversion(watch.Cena.s))
                       IN  IF ~value.ok THEN [raised |-> TRUE, ret |-> <<>>]
                           ELSE market_create_prices_loop(
                                    rows, k + 1,
                                    Append(acc, market_price_record(code, value.val)),
                                    ids)
             ELSE market_create_prices_loop(rows, k + 1, acc, ids)

market_create_prices(rows, ids) == market_create_prices_loop(rows, 1, <<>>, ids)

(***************************************************************************)
(* The batch uploader: divide                                              *)
(***************************************************************************)
Min(a, b) == IF a < b THEN a ELSE b

\* A slice that takes one element too many.
Slice_inclusive(l, a, b) == SubSeq(l, a + 1, Min(b + 1, Len(l)))

\* l[a:b] for 0 <= a <= b.
Slice(l, a, b) == SubSeq(l, a + 1, Min(b, Len(l)))

\* seller.divide(lst, n) from range value i on: one slice per value of
\* range(0, len(lst), n).
RECURSIVE divide_from(_, _, _)
divide_from(l, size, from) ==
    IF from >= Len(l) THEN <<>>
    ELSE <<Slice(l, from, from + size)>> \o divide_from(l, size, from + size)

\* list(divide(lst, n)), n >= 1.
divide(l, size) == divide_from(l, size, 0)


(***************************************************************************)
(* Inputs                                                                  *)
(***************************************************************************)
MaxFeed == 2      \* rows in an enumerated feed
MaxOffers == 2    \* ids in an enumerated offer-id list
MaxRuns == 2      \* successive create_stocks calls on the same objects
MaxPriceLen == 3  \* characters in an enumerated price string
MaxLen == 12      \* elements in an enumerated list handed to divide
MaxChunk == 4     \* enumerated chunk sizes

SeqsUpTo(S, m) == UNION {[1..k -> S] : k \in 0..m}

NoRepeats(s) == \A a, b \in 1..Len(s) : s[a] = s[b] => a = b

Range(s) == {s[k] : k \in 1..Len(s)}

A1 == <<"A", "1">>
B2 == <<"B", "2">>
Z9 == <<"Z", "9">>

\* The ids a platform lists; "7" is the id of a product whose feed code is the
\* whole number 7.
OfferUniverse == {A1, B2, <<"7">>}

Quantities ==
    {StrCell(GT10), StrCell(<<"1">>), StrCell(<<"7">>), StrCell(<<"0">>),
     IntCell(1), IntCell(12), StrCell(<<"x">>)}

P100_50 == <<"1", "0", "0", ".", "5", "0">>

Row(code, quantity, cena) ==
    [Kod |-> code, Kolichestvo |-> quantity, Cena |-> StrCell(cena)]

\* Rows: one listed code with every quantity, a whole-number code, and an
\* unlisted code whose quantity does not parse.
StockRows ==
    {Row(StrCell(A1), q, P100_50) : q \in Quantities}
    \cup {Row(IntCell(7), StrCell(GT10), P100_50),
          Row(StrCell(Z9), StrCell(<<"x">>), P100_50)}

StockFeeds == SeqsUpTo(StockRows, MaxFeed)

\* The offer ids of a platform are distinct.
OfferLists == {s \in SeqsUpTo(OfferUniverse, MaxOffers) : NoRepeats(s)}

\* str(utcnow()) at the two possible instants of a call.
Dates == {"2022-01-01T12:34:56Z", "2022-01-01T12:34:57Z"}

WAREHOUSE == "warehouse_ABC"

PriceAlphabet == {"5", "9", "0", ".", "'", " "}

PRICE_DOC == <<"5", "'", "9", "9", "0", ".", "0", "0", " ",
               "CYR_R", "CYR_U", "CYR_B", ".">>

P199_99 == <<"1", "9", "9", ".", "9", "9">>

PriceStrings == SeqsUpTo(PriceAlphabet, MaxPriceLen) \cup {PRICE_DOC, P199_99, P100_50}

\* Rows for create_prices: one listed code with two quantities and two prices,
\* a price with no digit before its ".", a whole-number code, an unlisted code,
\* and a price cell that holds a number.
PriceRows ==
    {Row(StrCell(A1), q, p) : q \in {StrCell(GT10), StrCell(<<"7">>)},
                              p \in {P100_50, P199_99}}
    \cup {Row(StrCell(A1), StrCell(GT10), <<".", "5">>),
          Row(IntCell(7), StrCell(GT10), PRICE_DOC),
          Row(StrCell(Z9), StrCell(<<"x">>), P100_50),
          [Row(StrCell(B2), StrCell(<<"0">>), P100_50) EXCEPT !.Cena = IntCell(100)]}

PriceFeeds == SeqsUpTo(PriceRows, MaxFeed)

\* The chunk sizes of the upload loops.
SELLER_STOCKS_CHUNK == 100
SELLER_PRICES_CHUNK == 900
SELLER_UPLOAD_PRICES_CHUNK == 1000
MARKET_STOCKS_CHUNK == 2000
MARKET_PRICES_CHUNK == 500

ConfiguredChunks ==
    {SELLER_STOCKS_CHUNK, SELLER_PRICES_CHUNK, SELLER_UPLOAD_PRICES_CHUNK,
     MARKET_STOCKS_CHUNK, MARKET_PRICES_CHUNK}

\* The list 1, 2, ..., len: its elements tell their places.
Iota(len) == [k \in 1..len |-> k]

DivideInputs ==
    {[lst |-> Iota(len), n |-> size] : len \in 0..MaxLen, size \in 1..MaxChunk}
    \cup UNION {{[lst |-> Iota(len), n |-> size] :
                     len \in {size - 1, size, size + 1, 2 * size + 1}} :
                 size \in ConfiguredChunks}

(***************************************************************************)
(* The functions, each called on enumerated inputs                         *)
(***************************************************************************)
StocksIdle ==
    /\ watch_remnants = <<>> /\ offer_ids = <<>> /\ snapshot = <<>>
    /\ stocks = <<>> /\ runs = <<>>

PriceIdle == price = <<>> /\ converted = <<>>

DivideIdle == lst = <<>> /\ n = 1 /\ chunks = <<>>

NoPlatform == [c \in {} |-> <<>>]

MainIdle ==
    /\ platform = NoPlatform /\ page_size = 1 /\ feed_file = <<>>
    /\ campaign = "" /\ product_list = <<>> /\ last_id = <<>> /\ total = 0
    /\ page = <<>> /\ prices = <<>> /\ idx = 1 /\ calls = <<>>
    /\ printed = <<>> /\ coroutines = <<>>

InitStocks ==
    /\ mode \in {"seller.create_stocks", "market.create_stocks"}
    /\ pc = "call"
    /\ watch_remnants \in StockFeeds
    /\ offer_ids \in OfferLists
    /\ snapshot = offer_ids
    /\ stocks = <<>>
    /\ runs = <<>>
    /\ PriceIdle /\ DivideIdle /\ MainIdle

\* One more call of seller.create_stocks on the same feed and list objects.
SellerCreateStocks ==
    /\ mode = "seller.create_stocks"
    /\ Len(runs) < MaxRuns
    /\ LET r == seller_create_stocks(watch_remnants, offer_ids)
       IN  /\ stocks' = IF r.raised THEN stocks ELSE r.ret
           /\ offer_ids' = r.offer_ids
           /\ runs' = Append(runs, [given |-> offer_ids, raised |-> r.raised,
                                    ret |-> r.ret])
    /\ UNCHANGED <<mode, pc, watch_remnants, snapshot, priceVars, divideVars, mainVars>>

\* One more call of market.create_stocks on the same feed and list objects.
MarketCreateStocks ==
    /\ mode = "market.create_stocks"
    /\ Len(runs) < MaxRuns
    /\ \E date \in Dates :
         LET r == market_create_stocks(watch_remnants, offer_ids, WAREHOUSE, date)
         IN  /\ stocks' = IF r.raised THEN stocks ELSE r.ret
             /\ offer_ids' = r.offer_ids
             /\ runs' = Append(runs, [given |-> offer_ids, raised |-> r.raised,
                                      ret |-> r.ret])
    /\ UNCHANGED <<mode, pc, watch_remnants, snapshot, priceVars, divideVars, mainVars>>

NextStocks == SellerCreateStocks \/ MarketCreateStocks

SpecStocks == InitStocks /\ [][NextStocks]_vars

InitPrice ==
    /\ mode = "price_conversion"
    /\ pc = "call"
    /\ price \in PriceStrings
    /\ converted = <<>>
    /\ StocksIdle /\ DivideIdle /\ MainIdle

PriceConversion ==
    /\ mode = "price_conversion"
    /\ pc = "call"
    /\ converted' = price_conversion(price)
    /\ pc' = "return"
    /\ UNCHANGED <<mode, price, stockVars, divideVars, mainVars>>

NextPrice == PriceConversion

SpecPrice == InitPrice /\ [][NextPrice]_vars

InitDivide ==
    /\ mode = "divide"
    /\ pc = "call"
    /\ \E in \in DivideInputs : lst = in.lst /\ n = in.n
    /\ chunks = <<>>
    /\ StocksIdle /\ PriceIdle /\ MainIdle

Divide ==
    /\ mode = "divide"
    /\ pc = "call"
    /\ chunks' = divide(lst, n)
    /\ pc' = "return"
    /\ UNCHANGED <<mode, lst, n, stockVars, priceVars, mainVars>>

NextDivide == Divide

SpecDivide == InitDivide /\ [][NextDivide]_vars

InitPrices ==
    /\ mode \in {"seller.create_prices", "market.create_prices"}
    /\ pc = "call"
    /\ watch_remnants \in PriceFeeds
    /\ offer_ids \in OfferLists
    /\ snapshot = offer_ids
    /\ stocks = <<>>
    /\ runs = <<>>
    /\ PriceIdle /\ DivideIdle /\ MainIdle

\* seller.create_prices on the feed and the list: it reads the list and assigns
\* nothing to it.
SellerCreatePrices ==
    /\ mode = "seller.create_prices" /\ pc = "call"
    /\ LET r == seller_create_prices(watch_remnants, offer_ids)
       IN  /\ prices' = r.ret
           /\ pc' = IF r.raised THEN "raised" ELSE "create_stocks"
    /\ UNCHANGED <<mode, stockVars, priceVars, divideVars, worldVars, campaign,
                   fetchVars, idx, calls, printed, coroutines>>

\* market.create_prices on the feed and the list.
MarketCreatePrices ==
    /\ mode = "market.create_prices" /\ pc = "call"
    /\ LET r == market_create_prices(watch_remnants, offer_ids)
       IN  /\ prices' = r.ret
           /\ pc' = IF r.raised THEN "raised" ELSE "create_stocks"
    /\ UNCHANGED <<mode, stockVars, priceVars, divideVars, worldVars, campaign,
                   fetchVars, idx, calls, printed, coroutines>>

\* seller.create_stocks on the feed and the list create_prices was given.
SellerCreateStocksAfterPrices ==
    /\ mode = "seller.create_prices" /\ pc = "create_stocks"
    /\ LET r == seller_create_stocks(watch_remnants, offer_ids)
       IN  /\ stocks' = r.ret
           /\ offer_ids' = r.offer_ids
           /\ pc' = IF r.raised THEN "stocks_raised" ELSE "return"
    /\ UNCHANGED <<mode, watch_remnants, snapshot, runs, priceVars, divideVars,
                   mainVars>>

\* market.create_stocks on the feed and the list create_prices was given.
MarketCreateStocksAfterPrices ==
    /\ mode = "market.create_prices" /\ pc = "create_stocks"
    /\ \E date \in Dates :
         LET r == market_create_stocks(watch_remnants, offer_ids, WAREHOUSE, date)
         IN  /\ stocks' = r.ret
             /\ offer_ids' = r.offer_ids
             /\ pc' = IF r.raised THEN "stocks_raised" ELSE "return"
    /\ UNCHANGED <<mode, watch_remnants, snapshot, runs, priceVars, divideVars,
                   mainVars>>

NextPrices ==
    \/ SellerCreatePrices
    \/ MarketCreatePrices
    \/ SellerCreateStocksAfterPrices
    \/ MarketCreateStocksAfterPrices

SpecPrices == InitPrices /\ [][NextPrices]_vars


(***************************************************************************)
(* Properties of the reconciler                                            *)
(***************************************************************************)
IsMarket == mode \in {"market.create_stocks", "market.create_prices", "market.main"}

\* The offer id and the count of a stock record of either shape.
RecId(rec) == IF IsMarket THEN rec.sku ELSE rec.offer_id

RecCount(rec) == IF IsMarket THEN rec.items[1].count ELSE rec.stock

CodeText(feed, j) == PyStr(feed[j].Kod)

QuantityText(feed, j) == PyStr(feed[j].Kolichestvo)

\* The rows matched to an id of S, in feed order: the first row of each code
\* that S lists.
MatchedRows(feed, S) ==
    LET first(j) == /\ In(CodeText(feed, j), S)
                    /\ \A h \in 1..(j - 1) : CodeText(feed, h) # CodeText(feed, j)
    IN  SelectSeq(Iota(Len(feed)), first)

\* The ids of S that no row of the feed carries, in the order of S.
UnmatchedIds(feed, S) ==
    LET absent(id) == \A j \in 1..Len(feed) : CodeText(feed, j) # id
    IN  SelectSeq(S, absent)

IsIntegerText(t) == t # <<>> /\ \A k \in 1..Len(t) : IsDigit(t[k])

RECURSIVE DecimalValue(_)
DecimalValue(t) ==
    IF t = <<>> THEN 0
    ELSE 10 * DecimalValue(SubSeq(t, 1, Len(t) - 1)) + DigitValue(t[Len(t)])

\* C1: a call of create_stocks (either variant) that returns, on a feed and a
\* list S of distinct offer ids, returns exactly Len(S) records, one for each id
\* of S and none for any other code.
C1_OneRecordPerOfferId ==
    \A r \in 1..Len(runs) :
        ~runs[r].raised =>
            LET out == runs[r].ret
                S == runs[r].given
            IN  /\ Len(out) = Len(S)
                /\ \A k \in 1..Len(S) :
                       Cardinality({j \in 1..Len(out) : RecId(out[j]) = S[k]}) = 1
                /\ \A j \in 1..Len(out) : In(RecId(out[j]), S)

\* A returned call whose feed repeats a code of S and whose S lists an id the
\* feed lacks.
C1_Witness ==
    /\ mode \in {"seller.create_stocks", "market.create_stocks"}
    /\ Len(runs) >= 1 /\ ~runs[1].raised
    /\ Len(watch_remnants) = 2
    /\ CodeText(watch_remnants, 1) = CodeText(watch_remnants, 2)
    /\ In(CodeText(watch_remnants, 1), runs[1].given)
    /\ UnmatchedIds(watch_remnants, runs[1].given) # <<>>

\* The ids and counts of a stock list, without the Market timestamp.
IdsAndCounts(out) ==
    [j \in 1..Len(out) |-> [id |-> RecId(out[j]), count |-> RecCount(out[j])]]

\* C4: create_stocks leaves the caller's offer-id list as it was, and a second
\* call on the same feed and list returns what the first returned (the Market
\* timestamp aside).
C4_Idempotent ==
    /\ Len(runs) >= 1 => offer_ids = snapshot
    /\ (Len(runs) >= 2 /\ ~runs[1].raised /\ ~runs[2].raised) =>
           IdsAndCounts(runs[2].ret) = IdsAndCounts(runs[1].ret)

\* The count the quantity rule gives a quantity text.
RuleCount(text) ==
    IF text = GT10 THEN 100
    ELSE IF text = <<"1">> THEN 0
    ELSE DecimalValue(text)

RuleApplies(text) == text = GT10 \/ IsIntegerText(text)

\* C5: the count of every matched row is 100 for ">10", 0 for "1" and otherwise
\* the integer the quantity text writes; a call raises only on the quantity of
\* a matched row, so the quantity of an unmatched row is never parsed.
C5_QuantityRule ==
    \A r \in 1..Len(runs) :
        LET S == runs[r].given
            rows == MatchedRows(watch_remnants, S)
        IN  /\ runs[r].raised <=>
                   \E k \in 1..Len(rows) :
                       ~RuleApplies(QuantityText(watch_remnants, rows[k]))
            /\ ~runs[r].raised =>
                   \A k \in 1..Len(rows) :
                       RecCount(runs[r].ret[k])
                           = RuleCount(QuantityText(watch_remnants, rows[k]))

\* A returned call with a matched whole-number cell 1 (text "1", count 0) and an
\* unmatched row whose quantity does not parse.
C5_Witness ==
    /\ Len(runs) >= 1 /\ ~runs[1].raised
    /\ Len(watch_remnants) = 2
    /\ watch_remnants[1].Kolichestvo = IntCell(1)
    /\ In(CodeText(watch_remnants, 1), snapshot)
    /\ RecCount(runs[1].ret[1]) = 0
    /\ ~In(CodeText(watch_remnants, 2), snapshot)
    /\ QuantityText(watch_remnants, 2) = <<"x">>

\* C8: the returned list is the records of the matched rows in feed order,
\* followed by a zero record for every unmatched id in the order of the list
\* given.
C8_MatchedThenDefaults ==
    \A r \in 1..Len(runs) :
        ~runs[r].raised =>
            LET S == runs[r].given
                out == runs[r].ret
                rows == MatchedRows(watch_remnants, S)
                rest == UnmatchedIds(watch_remnants, S)
            IN  /\ Len(out) = Len(rows) + Len(rest)
                /\ \A k \in 1..Len(rows) :
                       RecId(out[k]) = CodeText(watch_remnants, rows[k])
                /\ \A k \in 1..Len(rest) :
                       /\ RecId(out[Len(rows) + k]) = rest[k]
                       /\ RecCount(out[Len(rows) + k]) = 0

\* A returned call with two matched rows in the order opposite to that of the
\* list.
C8_Witness ==
    /\ Len(runs) >= 1 /\ ~runs[1].raised
    /\ snapshot = <<A1, <<"7">>>>
    /\ Len(watch_remnants) = 2
    /\ CodeText(watch_remnants, 1) = <<"7">>
    /\ CodeText(watch_remnants, 2) = A1
    /\ RecId(runs[1].ret[1]) = <<"7">>

(***************************************************************************)
(* Properties of price_conversion and divide                               *)
(***************************************************************************)
\* The part of p before its first ".", all of p when it has none.
BeforeFirstDot(p) ==
    LET dots == {k \in 1..Len(p) : p[k] = "."}
    IN  IF dots = {} THEN p
        ELSE SubSeq(p, 1, (CHOOSE k \in dots : \A h \in dots : k <= h) - 1)

RECURSIVE Concat(_)
Concat(ss) == IF ss = <<>> THEN <<>> ELSE Head(ss) \o Concat(Tail(ss))

\* C7: divide(lst, n), n >= 1, yields ceil(Len(lst) / n) chunks, each of n
\* elements but the last, which has 1 to n; their concatenation is lst; an
\* empty list yields no chunk.
C7_Divide ==
    (mode = "divide" /\ pc = "return") =>
        /\ Len(chunks) = (Len(lst) + n - 1) \div n
        /\ \A k \in 1..(Len(chunks) - 1) : Len(chunks[k]) = n
        /\ chunks # <<>> =>
               Len(chunks[Len(chunks)]) >= 1 /\ Len(chunks[Len(chunks)]) <= n
        /\ Concat(chunks) = lst
        /\ lst = <<>> => chunks = <<>>

\* 1001 elements in chunks of 500: two full chunks and a last one of 1.
C7_Witness ==
    /\ mode = "divide" /\ pc = "return"
    /\ n = MARKET_PRICES_CHUNK
    /\ Len(lst) = 2 * MARKET_PRICES_CHUNK + 1
    /\ Len(chunks) = 3
    /\ Len(chunks[3]) = 1


(***************************************************************************)
(* The marketplace and the feed server                                     *)
(***************************************************************************)
MaxPage == 2      \* the largest enumerated page size of a marketplace

SELLER_LIST_LIMIT == 1000
MARKET_LIST_LIMIT == 200

\* The cursor a marketplace hands out for "after the first pos items", and the
\* place a cursor stands for; "" is the start.
Token(pos) == IntToStr(pos)

CursorPosition(cursor) == IF cursor = <<>> THEN 0 ELSE PyIntOfStr(cursor).val

\* The items of catalog after place from, at most limit and at most cap.
PageOf(catalog, from, limit, cap) ==
    SubSeq(catalog, from + 1, from + Min(Min(limit, cap), Len(catalog) - from))

\* The "result" of Ozon's /v2/product/list for the request get_product_list
\* sends: the next page after last_id, the cursor after it, and the total.
seller_get_product_list(catalog, cursor, cap) ==
    LET from == CursorPosition(cursor)
        ids == PageOf(catalog, from, SELLER_LIST_LIMIT, cap)
    IN  [items |-> [k \in 1..Len(ids) |-> [offer_id |-> ids[k]]],
         total |-> Len(catalog),
         last_id |-> Token(from + Len(ids))]

\* The "result" of Market's offer-mapping-entries for the request
\* get_product_list sends; the next-page token is empty on the last page.
market_get_product_list(catalog, cursor, cap) ==
    LET from == CursorPosition(cursor)
        ids == PageOf(catalog, from, MARKET_LIST_LIMIT, cap)
    IN  [offerMappingEntries |->
             [k \in 1..Len(ids) |-> [offer |-> [shopSku |-> ids[k]]]],
         paging |-> [nextPageToken |->
                         IF from + Len(ids) < Len(catalog)
                         THEN Token(from + Len(ids)) ELSE <<>>]]

\* What an HTTP call does: it answers, or requests raises.
HttpErrors == {"ReadTimeout", "ConnectionError", "HTTPError"}

HttpOutcomes == {"ok"} \cup HttpErrors

\* Errors of download_stock: those of its HTTP call, and a zip or spreadsheet
\* that cannot be read.
DownloadOutcomes == HttpOutcomes \cup {"BadZipFile"}

\* The except clauses of main: what is printed for an exception.
except_message(exc) ==
    IF exc = "ReadTimeout" THEN "timeout"
    ELSE IF exc = "ConnectionError" THEN "connection error"
    ELSE "ERROR_2"

\* The ids 1, 2, ..., size: a catalog larger than one page and one chunk.
BigCatalog(size) == [k \in 1..size |-> IntToStr(k)]

BigOzon == BigCatalog(SELLER_LIST_LIMIT + 1)

BigMarket == BigCatalog(MARKET_STOCKS_CHUNK + 1)

SmallCatalogs == {<<>>, <<A1>>, <<A1, B2>>, <<B2, <<"7">>, A1>>}

\* The feeds of the runs of main: empty; the documented row; a row that is not
\* listed; a whole-number code and a repeated code; a quantity that does not
\* parse.
MainFeeds ==
    {<<>>,
     <<Row(StrCell(A1), StrCell(GT10), P100_50)>>,
     <<Row(StrCell(Z9), StrCell(<<"x">>), P199_99),
       Row(StrCell(A1), StrCell(<<"7">>), PRICE_DOC)>>,
     <<Row(IntCell(7), IntCell(1), P100_50),
       Row(StrCell(A1), StrCell(GT10), P100_50),
       Row(StrCell(A1), StrCell(<<"0">>), P199_99)>>,
     <<Row(StrCell(A1), StrCell(<<"x">>), P100_50)>>}

Ozon(catalog) == [c \in {"OZON"} |-> catalog]

Market(fbs, dbs) == [c \in {"FBS", "DBS"} |-> IF c = "FBS" THEN fbs ELSE dbs]


(***************************************************************************)
(* The entry points                                                        *)
(***************************************************************************)
\* A ghost record of one marketplace HTTP call: the cursor or the chunk sent,
\* whether the call answered, and the cursor a listing answered with.
Call(endpoint, arg, ok, answer) ==
    [endpoint |-> endpoint, campaign |-> campaign, arg |-> arg, ok |-> ok,
     answer |-> answer]

\* A handler inside the loops, which goes on where the exception was raised.
seller_try_exit_resuming(at) == at

\* seller.main, the except clauses: an exception raised at place at of the try
\* block is printed and main returns.
seller_try_exit(at) == "done"

\* market.main, the except clauses.
market_try_exit(at) == "done"

\* seller.get_offer_ids: the loop ends when the total is the number accumulated.
seller_loop_ends(reported, items) == reported = Len(items)

\* A loop that sends the first cursor again.
seller_next_cursor_stale(some_prod) == <<>>

\* seller.get_offer_ids: the cursor of the next call.
seller_next_cursor(some_prod) == some_prod.last_id

\* market.get_offer_ids: the page token of the next call.
market_next_page(some_prod) == some_prod.paging.nextPageToken

\* market.get_offer_ids: "if not page: break".
market_loop_ends(token) == token = <<>>

\* Calling an async function runs none of its body: it makes a coroutine
\* object, which main never awaits.
call_async(fn, camp) == [fn |-> fn, campaign |-> camp, started |-> FALSE]

market_warehouse(camp) == IF camp = "FBS" THEN "WAREHOUSE_FBS_ID" ELSE "WAREHOUSE_DBS_ID"

Worlds ==
    {[mode |-> "seller.main", platform |-> Ozon(cat), page_size |-> size] :
         cat \in SmallCatalogs, size \in 1..MaxPage}
    \cup {[mode |-> "seller.main", platform |-> Ozon(BigOzon),
           page_size |-> SELLER_LIST_LIMIT]}
    \cup {[mode |-> "market.main", platform |-> Market(fbs, dbs), page_size |-> size] :
              fbs \in SmallCatalogs, dbs \in SmallCatalogs, size \in 1..MaxPage}
    \cup {[mode |-> "market.main", platform |-> Market(BigMarket, <<A1>>),
           page_size |-> MARKET_LIST_LIMIT]}

Init ==
    /\ \E w \in Worlds :
           /\ mode = w.mode /\ platform = w.platform /\ page_size = w.page_size
    /\ feed_file \in MainFeeds
    /\ pc = IF mode = "seller.main" THEN "get_offer_ids" ELSE "download_stock"
    /\ campaign = IF mode = "seller.main" THEN "OZON" ELSE "FBS"
    /\ product_list = <<>> /\ last_id = <<>> /\ total = 0 /\ page = <<>>
    /\ prices = <<>> /\ idx = 1 /\ calls = <<>> /\ printed = <<>>
    /\ coroutines = <<>>
    /\ StocksIdle /\ PriceIdle /\ DivideIdle

\* An exception raised in the try block of main, at an HTTP call (logged with
\* its argument) or elsewhere.
Raise(exit, exc) ==
    /\ pc' = exit
    /\ printed' = Append(printed, except_message(exc))

\* seller.get_offer_ids: one turn of its loop, and its return when the loop ends.
SellerMainGetOfferIds ==
    /\ mode = "seller.main" /\ pc = "get_offer_ids"
    /\ \E outcome \in HttpOutcomes :
         IF outcome = "ok"
         THEN LET some_prod == seller_get_product_list(platform[campaign],
                                                       last_id, page_size)
              IN  /\ calls' = Append(calls, Call("list", last_id, TRUE, some_prod.last_id))
                  /\ product_list' = product_list \o some_prod.items
                  /\ total' = some_prod.total
                  /\ last_id' = seller_next_cursor(some_prod)
                  /\ IF seller_loop_ends(total', product_list')
                     THEN /\ offer_ids' = [k \in 1..Len(product_list') |->
                                               product_list'[k].offer_id]
                          /\ snapshot' = offer_ids'
                          /\ pc' = "download_stock"
                     ELSE UNCHANGED <<offer_ids, snapshot, pc>>
                  /\ UNCHANGED printed
         ELSE /\ calls' = Append(calls, Call("list", last_id, FALSE, <<>>))
              /\ Raise(seller_try_exit(pc), outcome)
              /\ UNCHANGED <<offer_ids, snapshot, product_list, total, last_id>>
    /\ UNCHANGED <<mode, watch_remnants, stocks, runs, priceVars, divideVars,
                   worldVars, campaign, page, prices, idx, coroutines>>

\* seller.main: watch_remnants = download_stock().
SellerMainDownloadStock ==
    /\ mode = "seller.main" /\ pc = "download_stock"
    /\ \E outcome \in DownloadOutcomes :
         IF outcome = "ok"
         THEN /\ watch_remnants' = feed_file
              /\ pc' = "create_stocks"
              /\ UNCHANGED printed
         ELSE /\ Raise(seller_try_exit(pc), outcome)
              /\ UNCHANGED watch_remnants
    /\ UNCHANGED <<mode, offer_ids, snapshot, stocks, runs, priceVars, divideVars,
                   worldVars, campaign, fetchVars, prices, idx, calls, coroutines>>

\* seller.main: stocks = create_stocks(watch_remnants, offer_ids) and the
\* list(divide(stocks, 100)) the upload loop runs over.
SellerMainCreateStocks ==
    /\ mode = "seller.main" /\ pc = "create_stocks"
    /\ LET r == seller_create_stocks(watch_remnants, offer_ids)
       IN  /\ offer_ids' = r.offer_ids
           /\ IF r.raised
              THEN /\ Raise(seller_try_exit(pc), "ValueError")
                   /\ UNCHANGED <<stocks, chunks, idx>>
              ELSE /\ stocks' = r.ret
                   /\ chunks' = divide(r.ret, SELLER_STOCKS_CHUNK)
                   /\ idx' = 1
                   /\ pc' = "update_stocks"
                   /\ UNCHANGED printed
    /\ UNCHANGED <<mode, watch_remnants, snapshot, runs, priceVars, lst, n,
                   worldVars, campaign, fetchVars, prices, calls, coroutines>>

\* seller.main: one turn of an upload loop, update_stocks or update_price on
\* the next chunk, or the end of the loop.
SellerMainUpload ==
    /\ mode = "seller.main" /\ pc \in {"update_stocks", "update_price"}
    /\ IF idx > Len(chunks)
       THEN /\ pc' = IF pc = "update_stocks" THEN "create_prices" ELSE "done"
            /\ UNCHANGED <<idx, calls, printed>>
       ELSE \E outcome \in HttpOutcomes :
              IF outcome = "ok"
              THEN /\ calls' = Append(calls, Call(pc, chunks[idx], TRUE, <<>>))
                   /\ idx' = idx + 1
                   /\ UNCHANGED <<pc, printed>>
              ELSE /\ calls' = Append(calls, Call(pc, chunks[idx], FALSE, <<>>))
                   /\ Raise(seller_try_exit(pc), outcome)
                   /\ UNCHANGED idx
    /\ UNCHANGED <<mode, stockVars, priceVars, divideVars, worldVars, campaign,
                   fetchVars, prices, coroutines>>

\* seller.main: prices = create_prices(watch_remnants, offer_ids), with the list
\* create_stocks has worked on, and the list(divide(prices, 900)).
SellerMainCreatePrices ==
    /\ mode = "seller.main" /\ pc = "create_prices"
    /\ LET r == seller_create_prices(watch_remnants, offer_ids)
       IN  IF r.raised
           THEN /\ Raise(seller_try_exit(pc), "AttributeError")
                /\ UNCHANGED <<prices, chunks, idx>>
           ELSE /\ prices' = r.ret
                /\ chunks' = divide(r.ret, SELLER_PRICES_CHUNK)
                /\ idx' = 1
                /\ pc' = "update_price"
                /\ UNCHANGED printed
    /\ UNCHANGED <<mode, stockVars, priceVars, lst, n, worldVars, campaign,
                   fetchVars, calls, coroutines>>


\* market.main: watch_remnants = download_stock(), before the try block: an
\* exception here leaves main.
MarketMainDownloadStock ==
    /\ mode = "market.main" /\ pc = "download_stock"
    /\ \E outcome \in DownloadOutcomes :
         IF outcome = "ok"
         THEN /\ watch_remnants' = feed_file
              /\ pc' = "get_offer_ids"
         ELSE /\ pc' = "crashed"
              /\ UNCHANGED watch_remnants
    /\ UNCHANGED <<mode, offer_ids, snapshot, stocks, runs, priceVars, divideVars,
                   worldVars, campaign, fetchVars, prices, idx, calls, printed,
                   coroutines>>

\* market.get_offer_ids: one turn of its loop, and its return when the loop ends.
MarketMainGetOfferIds ==
    /\ mode = "market.main" /\ pc = "get_offer_ids"
    /\ \E outcome \in HttpOutcomes :
         IF outcome = "ok"
         THEN LET some_prod == market_get_product_list(platform[campaign],
                                                       page, page_size)
              IN  /\ calls' = Append(calls, Call("list", page, TRUE,
                                                  some_prod.paging.nextPageToken))
                  /\ product_list' = product_list \o some_prod.offerMappingEntries
                  /\ page' = market_next_page(some_prod)
                  /\ IF market_loop_ends(page')
                     THEN /\ offer_ids' = [k \in 1..Len(product_list') |->
                                               product_list'[k].offer.shopSku]
                          /\ snapshot' = offer_ids'
                          /\ pc' = "create_stocks"
                     ELSE UNCHANGED <<offer_ids, snapshot, pc>>
                  /\ UNCHANGED printed
         ELSE /\ calls' = Append(calls, Call("list", page, FALSE, <<>>))
              /\ Raise(market_try_exit(pc), outcome)
              /\ UNCHANGED <<offer_ids, snapshot, product_list, page>>
    /\ UNCHANGED <<mode, watch_remnants, stocks, runs, priceVars, divideVars,
                   worldVars, campaign, last_id, total, prices, idx, coroutines>>

\* market.main: stocks = create_stocks(watch_remnants, offer_ids, warehouse) and
\* the list(divide(stocks, 2000)) the upload loop runs over.
MarketMainCreateStocks ==
    /\ mode = "market.main" /\ pc = "create_stocks"
    /\ \E date \in Dates :
         LET r == market_create_stocks(watch_remnants, offer_ids,
                                       market_warehouse(campaign), date)
         IN  /\ offer_ids' = r.offer_ids
             /\ IF r.raised
                THEN /\ Raise(market_try_exit(pc), "ValueError")
                     /\ UNCHANGED <<stocks, chunks, idx>>
                ELSE /\ stocks' = r.ret
                     /\ chunks' = divide(r.ret, MARKET_STOCKS_CHUNK)
                     /\ idx' = 1
                     /\ pc' = "update_stocks"
                     /\ UNCHANGED printed
    /\ UNCHANGED <<mode, watch_remnants, snapshot, runs, priceVars, lst, n,
                   worldVars, campaign, fetchVars, prices, calls, coroutines>>

\* market.main: one turn of the stock upload loop, or its end.
MarketMainUpload ==
    /\ mode = "market.main" /\ pc = "update_stocks"
    /\ IF idx > Len(chunks)
       THEN /\ pc' = "upload_prices"
            /\ UNCHANGED <<idx, calls, printed>>
       ELSE \E outcome \in HttpOutcomes :
              IF outcome = "ok"
              THEN /\ calls' = Append(calls, Call(pc, chunks[idx], TRUE, <<>>))
                   /\ idx' = idx + 1
                   /\ UNCHANGED <<pc, printed>>
              ELSE /\ calls' = Append(calls, Call(pc, chunks[idx], FALSE, <<>>))
                   /\ Raise(market_try_exit(pc), outcome)
                   /\ UNCHANGED idx
    /\ UNCHANGED <<mode, stockVars, priceVars, divideVars, worldVars, campaign,
                   fetchVars, prices, coroutines>>

\* market.main: the statement upload_prices(watch_remnants, campaign, token).
\* upload_prices is an async function and the call is not awaited: no line of
\* its body runs.  After the FBS campaign main goes on with DBS.
MarketMainUploadPrices ==
    /\ mode = "market.main" /\ pc = "upload_prices"
    /\ coroutines' = Append(coroutines, call_async("upload_prices", campaign))
    /\ IF campaign = "FBS"
       THEN /\ campaign' = "DBS"
            /\ pc' = "get_offer_ids"
            /\ product_list' = <<>>
            /\ page' = <<>>
       ELSE /\ pc' = "done"
            /\ UNCHANGED <<campaign, product_list, page>>
    /\ UNCHANGED <<mode, stockVars, priceVars, divideVars, worldVars, last_id,
                   total, prices, idx, calls, printed>>

Next ==
    \/ SellerMainGetOfferIds
    \/ SellerMainDownloadStock
    \/ SellerMainCreateStocks
    \/ SellerMainUpload
    \/ SellerMainCreatePrices
    \/ MarketMainDownloadStock
    \/ MarketMainGetOfferIds
    \/ MarketMainCreateStocks
    \/ MarketMainUpload
    \/ MarketMainUploadPrices

Spec == Init /\ [][Next]_vars

\* The runs of main up to the return of the first get_offer_ids call, on an
\* empty feed.  The program is sequential: a step that can be taken is taken.
InitFetch == Init /\ feed_file = <<>>

NextFetch ==
    \/ SellerMainGetOfferIds
    \/ MarketMainDownloadStock
    \/ MarketMainGetOfferIds

FairFetch == InitFetch /\ [][NextFetch]_vars /\ WF_vars(NextFetch)


(***************************************************************************)
(* Properties of the entry points                                          *)
(***************************************************************************)
\* The records of the chunks that answered calls of endpoint have carried to
\* campaign camp, in order.
RECURSIVE SentBy(_, _, _)
SentBy(log, endpoint, camp) ==
    IF log = <<>> THEN <<>>
    ELSE (IF Head(log).endpoint = endpoint /\ Head(log).campaign = camp
             /\ Head(log).ok
          THEN Head(log).arg ELSE <<>>)
         \o SentBy(Tail(log), endpoint, camp)

\* The chunks calls of endpoint carried to campaign camp, in order.
ChunksTo(endpoint, camp) ==
    LET hit(c) == c.endpoint = endpoint /\ c.campaign = camp
        sel == SelectSeq(calls, hit)
    IN  [k \in 1..Len(sel) |-> sel[k].arg]

RanToEnd == pc = "done" /\ printed = <<>>

\* C2: a run of seller.main that ends without an error has sent a price record
\* for every feed row whose code is among the offer ids fetched; the feed
\* [A1, ">10", "100.50"] with offer ids [A1, B2] gives stocks [A1:100, B2:0] and
\* prices [A1:"100"].
C2_PricesForListedRows ==
    (mode = "seller.main" /\ RanToEnd) =>
        LET sent == SentBy(calls, "update_price", "OZON")
        IN  /\ \A j \in 1..Len(watch_remnants) :
                   In(CodeText(watch_remnants, j), snapshot) =>
                       \E k \in 1..Len(sent) :
                           sent[k].offer_id = CodeText(watch_remnants, j)
            /\ (/\ watch_remnants = <<Row(StrCell(A1), StrCell(GT10), P100_50)>>
                /\ snapshot = <<A1, B2>>) =>
                   /\ stocks = <<[offer_id |-> A1, stock |-> 100],
                                 [offer_id |-> B2, stock |-> 0]>>
                   /\ sent = <<seller_price_record(A1, <<"1", "0", "0">>)>>

\* C3: a run of market.main that ends without an error has called update_price,
\* for each campaign, once per chunk of 500 of the campaign's price records, in
\* order, after the campaign's stock chunks.
C3_MarketPricesUploaded ==
    (mode = "market.main" /\ RanToEnd) =>
        \A camp \in {"FBS", "DBS"} :
            /\ ChunksTo("update_price", camp)
                   = divide(market_create_prices(watch_remnants, platform[camp]).ret,
                            MARKET_PRICES_CHUNK)
            /\ \A a, b \in 1..Len(calls) :
                   (/\ calls[a].campaign = camp /\ calls[a].endpoint = "update_stocks"
                    /\ calls[b].campaign = camp /\ calls[b].endpoint = "update_price")
                       => a < b

\* main is past a get_offer_ids call that returned, for the current campaign.
AfterFetch ==
    \/ pc \in {"create_stocks", "update_stocks", "create_prices", "update_price",
               "upload_prices"}
    \/ mode = "seller.main" /\ pc = "download_stock"

\* Every listing call carries the cursor the campaign's previous listing call
\* answered with, the first one the empty cursor.
CursorChained ==
    \A k \in 1..Len(calls) :
        calls[k].endpoint = "list" =>
            LET before == {h \in 1..(k - 1) : calls[h].endpoint = "list"
                                              /\ calls[h].campaign = calls[k].campaign}
            IN  IF before = {} THEN calls[k].arg = <<>>
                ELSE calls[k].arg
                         = calls[CHOOSE h \in before : \A g \in before : g <= h].answer

\* get_offer_ids returns the campaign's offer ids, each once, in platform order.
ReturnsCatalog == AfterFetch => snapshot = platform[campaign]

\* The Ozon loop goes on while the number accumulated differs from the total
\* and has ended when they are equal.
OzonStopsAtTotal ==
    mode = "seller.main" =>
        /\ (pc = "get_offer_ids" /\ calls # <<>>) => Len(product_list) # total
        /\ AfterFetch => Len(product_list) = total

\* No page is asked for that the catalog does not have.
FinitelyManyCalls ==
    \A camp \in DOMAIN platform :
        LET listing == {k \in 1..Len(calls) : calls[k].endpoint = "list"
                                               /\ calls[k].campaign = camp}
        IN  Cardinality(listing) <= Len(platform[camp]) + 1

\* C9: against a marketplace that pages a fixed list, get_offer_ids hands each
\* call the cursor of the previous answer, makes finitely many calls, ends, and
\* returns every offer id once in platform order; the Ozon loop ends exactly
\* when the accumulated count is the total.
C9_GetOfferIds ==
    /\ [](CursorChained /\ ReturnsCatalog /\ OzonStopsAtTotal /\ FinitelyManyCalls)
    /\ (pc = "get_offer_ids") ~> (pc # "get_offer_ids")

\* seller.get_offer_ids has returned the 1001 ids of a catalog of two pages.
C9_Witness ==
    /\ mode = "seller.main" /\ pc = "download_stock"
    /\ Len(calls) = 2
    /\ calls[2].arg = Token(SELLER_LIST_LIMIT)
    /\ Len(offer_ids) = SELLER_LIST_LIMIT + 1

AnyFailed == \E k \in 1..Len(calls) : ~calls[k].ok

\* C10: once a marketplace call has failed, main makes no further call and is
\* at its end; the log of calls only grows, so nothing sent is taken back, and
\* no chunk is sent twice: the stock chunks sent to a campaign are the first
\* chunks of its stock list.
C10_NoCallAfterFailure ==
    /\ [][AnyFailed => (calls' = calls /\ pc = "done" /\ pc' = "done")]_vars
    /\ [][Len(calls') >= Len(calls)
          /\ SubSeq(calls', 1, Len(calls)) = calls]_vars
    /\ [](pc \in {"update_stocks", "upload_prices"} =>
              /\ Len(ChunksTo("update_stocks", campaign)) = idx - 1
              /\ \A k \in 1..(idx - 1) :
                     ChunksTo("update_stocks", campaign)[k] = chunks[k])

\* seller.main has sent a stock chunk and the call for the next one failed.
C10_Witness ==
    /\ mode = "seller.main" /\ pc = "done"
    /\ Len(calls) >= 2
    /\ calls[Len(calls) - 1].endpoint = "update_stocks" /\ calls[Len(calls) - 1].ok
    /\ calls[Len(calls)].endpoint = "update_stocks" /\ ~calls[Len(calls)].ok


\* main has returned normally: it ran to its last statement, or an except
\* clause printed the error and main went on to its end.
ReturnedNormally == pc = "done"

\* C11: in seller.main and market.main no error of download_stock, of
\* get_offer_ids, of create_stocks or create_prices, or of an upload escapes
\* main: a run that has stopped has returned normally, and a run in which a
\* step raised has printed the error, once.
C11_NoErrorEscapesMain ==
    /\ pc # "crashed"
    /\ AnyFailed => (ReturnedNormally /\ Len(printed) = 1)
    /\ Len(printed) <= 1
    /\ printed # <<>> => ReturnedNormally


(***************************************************************************)
(* Properties of create_prices                                             *)
(***************************************************************************)
\* The rows whose code the list S holds, every one of them, in feed order.
ListedRows(feed, S) ==
    LET listed(j) == In(CodeText(feed, j), S)
    IN  SelectSeq(Iota(Len(feed)), listed)

\* How many rows of the feed carry the code id.
Occurrences(feed, id) == Cardinality({j \in 1..Len(feed) : CodeText(feed, j) = id})

\* The offer id of a price record of either shape.
PriceId(rec) == IF IsMarket THEN rec.id ELSE rec.offer_id

\* The price record create_prices makes of row j.
PriceOfRow(feed, j) ==
    IF IsMarket
    THEN market_price_record(CodeText(feed, j),
                             DecimalValue(price_conversion(feed[j].Cena.s)))
    ELSE seller_price_record(CodeText(feed, j), price_conversion(feed[j].Cena.s))

PricesReturned == pc \in {"create_stocks", "return", "stocks_raised"}

\* C12: a call of create_prices (either variant) that returns, returns the price
\* records of the feed rows whose code is in the list given, one per row, in
\* feed order, and the list is as it was; so a code of the list that k rows
\* carry has k price records, while create_stocks on the same feed and list
\* returns one stock record for it, with the count of the first of those rows.
C12_OnePricePerListedRow ==
    LET rows == ListedRows(watch_remnants, snapshot)
    IN  /\ (pc \in {"create_stocks", "raised"}) => offer_ids = snapshot
        /\ PricesReturned =>
               /\ Len(prices) = Len(rows)
               /\ \A i \in 1..Len(rows) :
                      prices[i] = PriceOfRow(watch_remnants, rows[i])
               /\ \A id \in Range(snapshot) :
                      Cardinality({i \in 1..Len(prices) : PriceId(prices[i]) = id})
                          = Occurrences(watch_remnants, id)
        /\ pc = "return" =>
               \A id \in Range(snapshot) :
                   Occurrences(watch_remnants, id) >= 1 =>
                       LET recs == {k \in 1..Len(stocks) : RecId(stocks[k]) = id}
                           j1 == CHOOSE j \in 1..Len(watch_remnants) :
                                     /\ CodeText(watch_remnants, j) = id
                                     /\ \A h \in 1..(j - 1) :
                                            CodeText(watch_remnants, h) # id
                       IN  /\ Cardinality(recs) = 1
                           /\ \A k \in recs :
                                  RecCount(stocks[k])
                                      = RuleCount(QuantityText(watch_remnants, j1))

\* Both functions have returned on a feed whose two rows carry the same listed
\* code with different prices and quantities: two price records, one stock
\* record.
C12_Witness ==
    /\ mode \in {"seller.create_prices", "market.create_prices"}
    /\ pc = "return"
    /\ Len(watch_remnants) = 2
    /\ CodeText(watch_remnants, 1) = CodeText(watch_remnants, 2)
    /\ In(CodeText(watch_remnants, 1), snapshot)
    /\ watch_remnants[1].Cena # watch_remnants[2].Cena
    /\ watch_remnants[1].Kolichestvo # watch_remnants[2].Kolichestvo
    /\ Len(prices) = 2 /\ prices[1] # prices[2]
    /\ Cardinality({k \in 1..Len(stocks) :
                        RecId(stocks[k]) = CodeText(watch_remnants, 1)}) = 1

=============================================================================
